---------------------------- MODULE Spec2Model ----------------------------
(***************************************************************************)
(* Model of the 6x6 sliding-tile game of src/src/game_view_2048.rs:        *)
(* the coordinate model (Direction, Position), the line iterator           *)
(* (LineIteration), the board operations of GameState (aggregate, wins,    *)
(* dead, add_at_random_position, update_state) and the two entry points    *)
(* of the yew Component (create, update).                                  *)
(*                                                                         *)
(* Tile values are u64 in the source.  Every value of the model stays      *)
(* below 2^13, so the u64 addition of aggregate is modelled by +.          *)
(***************************************************************************)
EXTENDS Integers, Sequences, FiniteSets, TLC

VARIABLES
    state,      \* GameState.state : [u64; 36], indexed 0..35
    is_dead,    \* GameState.is_dead
    won,        \* GameState.won
    call,       \* the last operation run on the GameState and its arguments
    mid,        \* the board as update_state left it after its aggregate loop
    budget,     \* number of further operations the model explores
    panicked    \* TRUE once an unwrap() or a bounds check has panicked

vars == <<state, is_dead, won, call, mid, budget, panicked>>

---------------------------------------------------------------------------
(* Program constants *)

Side == 6               \* rows and columns of the board
Cells == 36             \* length of GameState.state
LastCoord == 5          \* the largest row or column
WinValue == 2048        \* threshold of wins()
ByteMax == 255          \* largest value of the u8 filled by getrandom

(* Bounds of the model *)

MaxMoves == 1           \* update events explored after create()
MaxResumed == 2         \* update events explored after a recorded game
WinRunLen == 2104       \* moves of the first recorded game that are replayed
DeadRunLen == 773       \* moves of the second recorded game that are replayed
MaxExp == 2             \* line contents of SpecLine range over 0, 1 .. 2^MaxExp

---------------------------------------------------------------------------
(* Direction *)

Direction == {"Up", "Down", "Left", "Right"}

opposite(d) ==
    CASE d = "Up" -> "Down"
      [] d = "Down" -> "Up"
      [] d = "Left" -> "Right"
      [] d = "Right" -> "Left"

\* perpendicular_positive with the result of Up turned round
perpendicular_positive_up_right(d) ==
    CASE d = "Up" -> "Right"
      [] d = "Left" -> "Down"
      [] d = "Down" -> "Right"
      [] d = "Right" -> "Up"

perpendicular_positive(d) ==
    CASE d = "Up" -> "Left"
      [] d = "Left" -> "Down"
      [] d = "Down" -> "Right"
      [] d = "Right" -> "Up"

(* Option<T>: None is the empty sequence, Some(x) the one-element sequence *)

None == << >>
Some(x) == << x >>
unwrap(o) == o[1]

(* Position *)

Pos(r, c) == [row |-> r, column |-> c]

position(p) == Side * p.row + p.column

\* neibouring_cell whose Down stops one row early
neibouring_cell_short(p, pointing) ==
    CASE pointing = "Up" ->
            IF p.row = 0 THEN None ELSE Some(Pos(p.row - 1, p.column))
      [] pointing = "Down" ->
            IF p.row >= LastCoord - 1 THEN None
            ELSE Some(Pos(p.row + 1, p.column))
      [] pointing = "Left" ->
            IF p.column = 0 THEN None ELSE Some(Pos(p.row, p.column - 1))
      [] pointing = "Right" ->
            IF p.column = LastCoord THEN None
            ELSE Some(Pos(p.row, p.column + 1))

neibouring_cell(p, pointing) ==
    CASE pointing = "Up" ->
            IF p.row = 0 THEN None ELSE Some(Pos(p.row - 1, p.column))
      [] pointing = "Down" ->
            IF p.row = LastCoord THEN None ELSE Some(Pos(p.row + 1, p.column))
      [] pointing = "Left" ->
            IF p.column = 0 THEN None ELSE Some(Pos(p.row, p.column - 1))
      [] pointing = "Right" ->
            IF p.column = LastCoord THEN None ELSE Some(Pos(p.row, p.column + 1))

from_index(index) == Pos(index \div Side, index % Side)

(* Index / IndexMut for GameState; every Position the model builds has row
   and column in 0 .. LastCoord, so the bounds check passes *)

index(s, p) == s[position(p)]

index_mut(s, p, v) == [s EXCEPT ![position(p)] = v]

---------------------------------------------------------------------------
(* LineIteration *)

LineIteration(h, d, e) == [head |-> h, direction |-> d, ended |-> e]

\* Iterator::next that ends without yielding the cell on the edge
next_short(it) ==
    IF it.ended
    THEN [item |-> None, it |-> it]
    ELSE LET temp == it.head
             nx == neibouring_cell(it.head, it.direction)
         IN  IF nx # None
             THEN [item |-> Some(temp), it |-> [it EXCEPT !.head = unwrap(nx)]]
             ELSE [item |-> None, it |-> [it EXCEPT !.ended = TRUE]]

\* Iterator::next : the item yielded and the iterator afterwards
next(it) ==
    IF it.ended
    THEN [item |-> None, it |-> it]
    ELSE LET temp == it.head
             nx == neibouring_cell(it.head, it.direction)
         IN  [item |-> Some(temp),
              it |-> IF nx # None
                     THEN [it EXCEPT !.head = unwrap(nx)]
                     ELSE [it EXCEPT !.ended = TRUE]]

\* heads with the start cells of Left and Right exchanged
heads_swapped(direction) ==
    LET start == CASE direction = "Up" -> Pos(0, 5)
                   [] direction = "Down" -> Pos(5, 0)
                   [] direction = "Left" -> Pos(5, 5)
                   [] direction = "Right" -> Pos(0, 0)
    IN  LineIteration(start, perpendicular_positive(direction), FALSE)

heads(direction) ==
    LET start == CASE direction = "Up" -> Pos(0, 5)
                   [] direction = "Down" -> Pos(5, 0)
                   [] direction = "Left" -> Pos(0, 0)
                   [] direction = "Right" -> Pos(5, 5)
    IN  LineIteration(start, perpendicular_positive(direction), FALSE)

---------------------------------------------------------------------------
(* GameState *)

\* mergeable without the comparison of the two values
mergeable_nonzero(s, x, y) ==
    (index(s, x) # 0) /\ (index(s, y) # 0)

mergeable(s, x, y) ==
    (index(s, x) # 0) /\ (index(s, y) # 0) /\ (index(s, x) = index(s, y))

wins(s) == \E i \in 0 .. Cells - 1 : s[i] >= WinValue

\* dead() that looks at the Left and Right neighbours only
RECURSIVE dead_from_row(_, _)
dead_from_row(s, i) ==
    IF i = Cells THEN TRUE
    ELSE LET p == from_index(i)
             hit(dir) == LET j == neibouring_cell(p, dir)
                         IN  j # None /\ mergeable(s, p, unwrap(j))
         IN  IF index(s, p) = 0 THEN FALSE
             ELSE IF hit("Left") THEN FALSE
             ELSE IF hit("Right") THEN FALSE
             ELSE dead_from_row(s, i + 1)

\* the loop of dead() from cell i on, with its early returns
RECURSIVE dead_from(_, _)
dead_from(s, i) ==
    IF i = Cells THEN TRUE
    ELSE LET p == from_index(i)
             hit(dir) == LET j == neibouring_cell(p, dir)
                         IN  j # None /\ mergeable(s, p, unwrap(j))
         IN  IF index(s, p) = 0 THEN FALSE
             ELSE IF hit("Up") THEN FALSE
             ELSE IF hit("Down") THEN FALSE
             ELSE IF hit("Left") THEN FALSE
             ELSE IF hit("Right") THEN FALSE
             ELSE dead_from(s, i + 1)

dead(s) == dead_from(s, 0)

\* the Vec of the indices of the empty cells, in increasing order
empties(s) == SelectSeq([k \in 1 .. Cells |-> k - 1], LAMBDA i : s[i] = 0)

\* add_at_random_position that spawns a 2
add_at_random_position_two(s, buffer0) ==
    LET e == empties(s)
    IN  IF Len(e) = 0 THEN s
        ELSE LET number == buffer0 % Len(e)
             IN  [s EXCEPT ![e[number + 1]] = 2]

\* buffer0 is the byte getrandom wrote
add_at_random_position(s, buffer0) ==
    LET e == empties(s)
    IN  IF Len(e) = 0 THEN s
        ELSE LET number == buffer0 % Len(e)
             IN  [s EXCEPT ![e[number + 1]] = 1]

\* aggregate_visit with a merge that leaves the sum staged, so that it can
\* merge again
aggregate_visit_chain(acc, p, direction) ==
    LET s == acc.state
        nw == neibouring_cell(acc.write, opposite(direction))
    IN  IF index(s, p) = 0
        THEN acc
        ELSE IF acc.count = 0
        THEN [acc EXCEPT !.state = index_mut(s, acc.write, index(s, p)),
                         !.count = 1]
        ELSE IF mergeable(s, acc.write, p)
        THEN [acc EXCEPT !.state = index_mut(s, acc.write,
                                             index(s, acc.write) + index(s, p))]
        ELSE IF nw = None
             THEN [acc EXCEPT !.panic = TRUE]
             ELSE [state |-> index_mut(s, unwrap(nw), index(s, p)),
                   write |-> unwrap(nw),
                   count |-> 1, panic |-> FALSE]

\* aggregate_visit with a merge that assigns (=) where the source adds (+=)
aggregate_visit_assign(acc, p, direction) ==
    LET s == acc.state
        nw == neibouring_cell(acc.write, opposite(direction))
    IN  IF index(s, p) = 0
        THEN acc
        ELSE IF acc.count = 0
        THEN [acc EXCEPT !.state = index_mut(s, acc.write, index(s, p)),
                         !.count = 1]
        ELSE IF mergeable(s, acc.write, p)
        THEN LET s1 == index_mut(s, acc.write, index(s, p))
             IN  IF nw = None
                 THEN [acc EXCEPT !.state = s1, !.panic = TRUE]
                 ELSE [state |-> s1, write |-> unwrap(nw),
                       count |-> 0, panic |-> FALSE]
        ELSE IF nw = None
             THEN [acc EXCEPT !.panic = TRUE]
             ELSE [state |-> index_mut(s, unwrap(nw), index(s, p)),
                   write |-> unwrap(nw),
                   count |-> 1, panic |-> FALSE]

\* aggregate_visit that advances the write cursor towards the pressed edge
aggregate_visit_backwards(acc, p, direction) ==
    LET s == acc.state
        nw == neibouring_cell(acc.write, direction)
    IN  IF index(s, p) = 0
        THEN acc
        ELSE IF acc.count = 0
        THEN [acc EXCEPT !.state = index_mut(s, acc.write, index(s, p)),
                         !.count = 1]
        ELSE IF mergeable(s, acc.write, p)
        THEN LET s1 == index_mut(s, acc.write,
                                 index(s, acc.write) + index(s, p))
             IN  IF nw = None
                 THEN [acc EXCEPT !.state = s1, !.panic = TRUE]
                 ELSE [state |-> s1, write |-> unwrap(nw),
                       count |-> 0, panic |-> FALSE]
        ELSE IF nw = None
             THEN [acc EXCEPT !.panic = TRUE]
             ELSE [state |-> index_mut(s, unwrap(nw), index(s, p)),
                   write |-> unwrap(nw),
                   count |-> 1, panic |-> FALSE]

\* one pass through the body of the first loop of aggregate, for the
\* cell p; acc = [state, write, count, panic]
aggregate_visit(acc, p, direction) ==
    LET s == acc.state
        nw == neibouring_cell(acc.write, opposite(direction))
    IN  IF index(s, p) = 0
        THEN acc
        ELSE IF acc.count = 0
        THEN [acc EXCEPT !.state = index_mut(s, acc.write, index(s, p)),
                         !.count = 1]
        ELSE IF mergeable(s, acc.write, p)
        THEN LET s1 == index_mut(s, acc.write,
                                 index(s, acc.write) + index(s, p))
             IN  IF nw = None
                 THEN [acc EXCEPT !.state = s1, !.panic = TRUE]
                 ELSE [state |-> s1, write |-> unwrap(nw),
                       count |-> 0, panic |-> FALSE]
        ELSE IF nw = None
             THEN [acc EXCEPT !.panic = TRUE]
             ELSE [state |-> index_mut(s, unwrap(nw), index(s, p)),
                   write |-> unwrap(nw),
                   count |-> 1, panic |-> FALSE]

\* the first loop of aggregate, from the iterator `elements` on
RECURSIVE aggregate_scan(_, _, _)
aggregate_scan(acc, elements, direction) ==
    LET r == next(elements)
    IN  IF r.item = None \/ acc.panic THEN acc
        ELSE aggregate_scan(aggregate_visit(acc, unwrap(r.item), direction),
                            r.it, direction)

\* aggregate without its second loop
aggregate_clear_skipped(s, remaining) == s

\* what each pass through the body of the first loop of aggregate finds: the
\* write cursor, count, the cell p the iterator yielded and the value of p
RECURSIVE aggregate_visits(_, _, _)
aggregate_visits(acc, elements, direction) ==
    LET r == next(elements)
    IN  IF r.item = None \/ acc.panic THEN {}
        ELSE {[write |-> acc.write, count |-> acc.count,
               p |-> unwrap(r.item), value |-> index(acc.state, unwrap(r.item))]}
             \cup aggregate_visits(
                    aggregate_visit(acc, unwrap(r.item), direction),
                    r.it, direction)

\* the second loop of aggregate: self[p] = 0 for p in remaining
RECURSIVE aggregate_clear(_, _)
aggregate_clear(s, remaining) ==
    LET r == next(remaining)
    IN  IF r.item = None THEN s
        ELSE aggregate_clear(index_mut(s, unwrap(r.item), 0), r.it)

\* aggregate_remaining that starts at the write cursor when a value is
\* staged on the far-edge cell
aggregate_remaining_edge(write, count, direction) ==
    LET nx == neibouring_cell(write, opposite(direction))
    IN  IF count = 0
        THEN LineIteration(write, opposite(direction), FALSE)
        ELSE IF nx # None
             THEN LineIteration(unwrap(nx), opposite(direction), FALSE)
             ELSE LineIteration(write, opposite(direction), FALSE)

\* aggregate_remaining that skips the cell under the write cursor when no
\* value is staged
aggregate_remaining_late(write, count, direction) ==
    LET nx == neibouring_cell(write, opposite(direction))
    IN  IF nx # None
        THEN LineIteration(unwrap(nx), opposite(direction), FALSE)
        ELSE LineIteration(write, opposite(direction), count # 0)

\* the iterator `remaining` of aggregate, over the cells to clear
aggregate_remaining(write, count, direction) ==
    LET nx == neibouring_cell(write, opposite(direction))
    IN  IF count = 0
        THEN LineIteration(write, opposite(direction), FALSE)
        ELSE IF nx # None
             THEN LineIteration(unwrap(nx), opposite(direction), FALSE)
             ELSE LineIteration(write, opposite(direction), TRUE)

\* the result: [state |-> the board afterwards, panic |-> an unwrap failed]
aggregate(s, head, direction) ==
    LET elements == LineIteration(head, opposite(direction), FALSE)
        acc == aggregate_scan(
                 [state |-> s, write |-> head, count |-> 0, panic |-> FALSE],
                 elements, direction)
        remaining == aggregate_remaining(acc.write, acc.count, direction)
    IN  IF acc.panic
        THEN [state |-> acc.state, panic |-> TRUE]
        ELSE [state |-> aggregate_clear(acc.state, remaining), panic |-> FALSE]

\* the loop `for head in heads` of update_state
RECURSIVE aggregate_lines(_, _, _)
aggregate_lines(a, hs, direction) ==
    LET r == next(hs)
    IN  IF r.item = None \/ a.panic THEN a
        ELSE aggregate_lines(aggregate(a.state, unwrap(r.item), direction),
                             r.it, direction)

\* the passes through the loop body of aggregate during the aggregate loop
\* of update_state, each with the head of its line
RECURSIVE update_state_visits(_, _, _)
update_state_visits(a, hs, direction) ==
    LET r == next(hs)
    IN  IF r.item = None \/ a.panic THEN {}
        ELSE LET head == unwrap(r.item)
             IN  {[head |-> head, visit |-> v] :
                    v \in aggregate_visits(
                            [state |-> a.state, write |-> head,
                             count |-> 0, panic |-> FALSE],
                            LineIteration(head, opposite(direction), FALSE),
                            direction)}
                 \cup update_state_visits(
                        aggregate(a.state, head, direction), r.it, direction)

\* update_state that spawns before it checks for a win
update_state_finish_spawn_first(self, a, buffer0) ==
    IF a.panic
    THEN [state |-> a.state, is_dead |-> self.is_dead, won |-> self.won,
          mid |-> a.state, panic |-> TRUE]
    ELSE LET s2 == add_at_random_position(a.state, buffer0)
         IN  IF wins(s2)
             THEN [state |-> s2, is_dead |-> self.is_dead, won |-> TRUE,
                   mid |-> a.state, panic |-> FALSE]
             ELSE [state |-> s2,
                   is_dead |-> IF dead(s2) THEN TRUE ELSE self.is_dead,
                   won |-> self.won,
                   mid |-> a.state, panic |-> FALSE]

\* update_state that spawns only when its aggregate loop changed the board
update_state_finish_guarded(self, a, buffer0) ==
    IF a.panic
    THEN [state |-> a.state, is_dead |-> self.is_dead, won |-> self.won,
          mid |-> a.state, panic |-> TRUE]
    ELSE IF wins(a.state)
    THEN [state |-> a.state, is_dead |-> self.is_dead, won |-> TRUE,
          mid |-> a.state, panic |-> FALSE]
    ELSE LET s2 == IF a.state = self.state THEN a.state
                   ELSE add_at_random_position(a.state, buffer0)
         IN  [state |-> s2,
              is_dead |-> IF dead(s2) THEN TRUE ELSE self.is_dead,
              won |-> self.won,
              mid |-> a.state, panic |-> FALSE]

\* update_state that runs the loss check before the spawn
update_state_finish_dead_first(self, a, buffer0) ==
    IF a.panic
    THEN [state |-> a.state, is_dead |-> self.is_dead, won |-> self.won,
          mid |-> a.state, panic |-> TRUE]
    ELSE IF wins(a.state)
    THEN [state |-> a.state, is_dead |-> self.is_dead, won |-> TRUE,
          mid |-> a.state, panic |-> FALSE]
    ELSE LET s2 == add_at_random_position(a.state, buffer0)
         IN  [state |-> s2,
              is_dead |-> IF dead(a.state) THEN TRUE ELSE self.is_dead,
              won |-> self.won,
              mid |-> a.state, panic |-> FALSE]

\* update_state that never runs the loss check
update_state_finish_no_loss(self, a, buffer0) ==
    IF a.panic
    THEN [state |-> a.state, is_dead |-> self.is_dead, won |-> self.won,
          mid |-> a.state, panic |-> TRUE]
    ELSE IF wins(a.state)
    THEN [state |-> a.state, is_dead |-> self.is_dead, won |-> TRUE,
          mid |-> a.state, panic |-> FALSE]
    ELSE [state |-> add_at_random_position(a.state, buffer0),
          is_dead |-> self.is_dead, won |-> self.won,
          mid |-> a.state, panic |-> FALSE]

\* update_state after its aggregate loop has left the board and panic flag a:
\* the win check, the spawn and the loss check
update_state_finish(self, a, buffer0) ==
    IF a.panic
    THEN [state |-> a.state, is_dead |-> self.is_dead, won |-> self.won,
          mid |-> a.state, panic |-> TRUE]
    ELSE IF wins(a.state)
    THEN [state |-> a.state, is_dead |-> self.is_dead, won |-> TRUE,
          mid |-> a.state, panic |-> FALSE]
    ELSE LET s2 == add_at_random_position(a.state, buffer0)
         IN  [state |-> s2,
              is_dead |-> IF dead(s2) THEN TRUE ELSE self.is_dead,
              won |-> self.won,
              mid |-> a.state, panic |-> FALSE]

\* the aggregate loop of update_state
update_state_lines(s, direction) ==
    aggregate_lines([state |-> s, panic |-> FALSE], heads(direction), direction)

\* self = [state, is_dead, won]; the result adds the board after the
\* aggregate loop (mid) and whether the call panicked
update_state(self, direction, buffer0) ==
    update_state_finish(self, update_state_lines(self.state, direction), buffer0)

---------------------------------------------------------------------------
(* Component for GameState *)

Bytes == 0 .. ByteMax

\* call.op names the operation, direction and head are its arguments, ret is
\* what update returned, slid tells whether the aggregate loop of update_state
\* changed a cell
Call(op, d, h, ret, slid) ==
    [op |-> op, direction |-> d, head |-> h, ret |-> ret, slid |-> slid]

NoCall == Call("none", "Up", Pos(0, 0), FALSE, FALSE)

\* create() that forgets the initial spawn
created_empty(buffer0) ==
    [state |-> [i \in 0 .. Cells - 1 |-> 0], is_dead |-> FALSE, won |-> FALSE]

\* the GameState after create() when getrandom returns buffer0
created(buffer0) ==
    [state |-> add_at_random_position([i \in 0 .. Cells - 1 |-> 0], buffer0),
     is_dead |-> FALSE, won |-> FALSE]

\* create(): all cells 0, then one spawn
create(buffer0) ==
    LET obj == created(buffer0)
    IN  /\ state = obj.state
        /\ is_dead = obj.is_dead
        /\ won = obj.won
        /\ call = Call("create", "Up", Pos(0, 0), FALSE, FALSE)
        /\ mid = state
        /\ budget = MaxMoves
        /\ panicked = FALSE

\* The bytes that select distinct cells: empties.len() is at most Cells, so
\* every byte picks the same cell as its residue, which is below Cells.
SpawnBytes == 0 .. Cells - 1

\* update that tests is_dead only
update_with_dead_only(msg, a, buffer0) ==
    /\ ~panicked
    /\ budget > 0
    /\ budget' = budget - 1
    /\ IF ~is_dead
       THEN LET r == update_state_finish([state |-> state, is_dead |-> is_dead,
                                          won |-> won], a, buffer0)
            IN  /\ state' = r.state
                /\ is_dead' = r.is_dead
                /\ won' = r.won
                /\ mid' = r.mid
                /\ panicked' = r.panic
                /\ call' = Call("update", msg, Pos(0, 0), TRUE, a.state # state)
       ELSE /\ UNCHANGED <<state, is_dead, won, panicked>>
            /\ mid' = state
            /\ call' = Call("update", msg, Pos(0, 0), FALSE, FALSE)

\* update(msg), with the aggregate loop of its update_state call already run
\* (a) so that it is shared by all the random bytes
update_with(msg, a, buffer0) ==
    /\ ~panicked
    /\ budget > 0
    /\ budget' = budget - 1
    /\ IF ~is_dead /\ ~won
       THEN LET r == update_state_finish([state |-> state, is_dead |-> is_dead,
                                          won |-> won], a, buffer0)
            IN  /\ state' = r.state
                /\ is_dead' = r.is_dead
                /\ won' = r.won
                /\ mid' = r.mid
                /\ panicked' = r.panic
                /\ call' = Call("update", msg, Pos(0, 0), TRUE, a.state # state)
       ELSE /\ UNCHANGED <<state, is_dead, won, panicked>>
            /\ mid' = state
            /\ call' = Call("update", msg, Pos(0, 0), FALSE, FALSE)

\* update(msg): the move event handler
update ==
    \E msg \in Direction :
        LET a == update_state_lines(state, msg)
        IN  \E buffer0 \in SpawnBytes : update_with(msg, a, buffer0)

Init == \E buffer0 \in Bytes : create(buffer0)

Next == update

Spec == Init /\ [][Next]_vars

---------------------------------------------------------------------------
(* Two recorded games.  Each starts with create() and presses a fixed      *)
(* cycle of keys; getrandom returns 0 every time.  The first game is one   *)
(* move away from a 2048 tile after WinRunLen moves, the second has a full *)
(* board after DeadRunLen moves and is lost one move later.                *)

WinRunKeys == <<"Left", "Up", "Right", "Down">>
DeadRunKeys == <<"Up", "Right", "Right", "Down">>

\* the GameState after update(msg) when getrandom returns buffer0
updated(g, msg, buffer0) ==
    IF ~g.is_dead /\ ~g.won
    THEN LET r == update_state(g, msg, buffer0)
         IN  [state |-> r.state, is_dead |-> r.is_dead, won |-> r.won]
    ELSE g

\* the GameState after the moves lo+1 .. hi of a recorded game played on g
RECURSIVE replay(_, _, _, _)
replay(g, keys, lo, hi) ==
    IF hi <= lo THEN g
    ELSE IF hi = lo + 1 THEN updated(g, keys[(lo % Len(keys)) + 1], 0)
    ELSE LET m == (lo + hi) \div 2
             g1 == replay(g, keys, lo, m)
         IN  IF g1.won \/ g1.is_dead THEN g1 ELSE replay(g1, keys, m, hi)

WinRun == replay(created(0), WinRunKeys, 0, WinRunLen)
DeadRun == replay(created(0), DeadRunKeys, 0, DeadRunLen)

\* a game resumed after the replayed moves of one of the recorded games
InitReplay ==
    /\ \E g \in {WinRun, DeadRun} :
          /\ state = g.state
          /\ is_dead = g.is_dead
          /\ won = g.won
    /\ call = NoCall
    /\ mid = state
    /\ budget = MaxResumed
    /\ panicked = FALSE

SpecReplay == InitReplay /\ [][Next]_vars

---------------------------------------------------------------------------
(* aggregate as a function of one line.  The board is filled from a line   *)
(* content c so that row r is c rotated by r places: every row and every   *)
(* column, read from either end, carries a rotation or a reversal of c,    *)
(* and c ranges over all contents.                                          *)

RECURSIVE Pow2(_)
Pow2(e) == IF e = 0 THEN 1 ELSE 2 * Pow2(e - 1)

LineVals == {0} \cup {Pow2(e) : e \in 0 .. MaxExp}

LineBoard(c) ==
    [i \in 0 .. Cells - 1 |-> c[(((i \div Side) + (i % Side)) % Side) + 1]]

InitLine ==
    /\ \E c \in [1 .. Side -> LineVals] : state = LineBoard(c)
    /\ is_dead = FALSE
    /\ won = FALSE
    /\ call = NoCall
    /\ mid = state
    /\ budget = 1
    /\ panicked = FALSE

\* the cells that the iterator it yields
RECURSIVE items(_)
items(it) ==
    LET r == next(it)
    IN  IF r.item = None THEN {} ELSE {unwrap(r.item)} \cup items(r.it)

\* the cells that the iterator it yields, in the order it yields them
RECURSIVE collect(_)
collect(it) ==
    LET r == next(it)
    IN  IF r.item = None THEN << >> ELSE <<unwrap(r.item)>> \o collect(r.it)

\* one call self.aggregate(head, direction), as update_state makes it
aggregate_call ==
    /\ budget > 0
    /\ \E direction \in Direction : \E head \in items(heads(direction)) :
          LET r == aggregate(state, head, direction)
          IN  /\ state' = r.state
              /\ panicked' = r.panic
              /\ call' = Call("aggregate", direction, head, FALSE, FALSE)
    /\ mid' = mid
    /\ budget' = budget - 1
    /\ UNCHANGED <<is_dead, won>>

NextLine == aggregate_call

SpecLine == InitLine /\ [][NextLine]_vars

---------------------------------------------------------------------------
(* update_state on a board with one cell set by hand: the board of a       *)
(* recorded game, untouched or with one cell overwritten by WinValue,      *)
(* both flags as the recorded game left them.                               *)

InitSetCell ==
    /\ \E g \in {WinRun, DeadRun} :
          /\ \/ state = g.state
             \/ \E i \in 0 .. Cells - 1 : state = [g.state EXCEPT ![i] = WinValue]
          /\ is_dead = g.is_dead
          /\ won = g.won
    /\ call = NoCall
    /\ mid = state
    /\ budget = MaxResumed
    /\ panicked = FALSE

SpecSetCell == InitSetCell /\ [][Next]_vars

---------------------------------------------------------------------------
(* Vocabulary of the properties *)

Index == 0 .. Cells - 1

Playing == ~won /\ ~is_dead

\* the last operation was a move event handled while Playing
Accepted == call.op = "update" /\ call.ret

EmptyCells(s) == {i \in Index : s[i] = 0}

\* board t is board s with one tile of value 1 put on an empty cell
OneTileAdded(s, t) ==
    \E i \in Index : s[i] = 0 /\ t = [s EXCEPT ![i] = 1]

\* the k-th cell (k = 0 is the head) of the line that a move in direction
\* d reads from head h
Along(h, d, k) ==
    CASE d = "Left" -> Side * h.row + (h.column + k)
      [] d = "Right" -> Side * h.row + (h.column - k)
      [] d = "Up" -> Side * (h.row + k) + h.column
      [] d = "Down" -> Side * (h.row - k) + h.column

\* the values of that line, from the pressed edge outwards
LineOf(s, h, d) == [k \in 1 .. Side |-> s[Along(h, d, k - 1)]]

NonEmpty(line) == SelectSeq(line, LAMBDA v : v # 0)

\* from the front, two consecutive equal values become their sum, which is
\* not compared again
RECURSIVE MergePairs(_)
MergePairs(q) ==
    IF Len(q) <= 1 THEN q
    ELSE IF q[1] = q[2]
         THEN <<q[1] + q[2]>> \o MergePairs(SubSeq(q, 3, Len(q)))
         ELSE <<q[1]>> \o MergePairs(Tail(q))

PadLine(q) == [k \in 1 .. Side |-> IF k <= Len(q) THEN q[k] ELSE 0]

ReferenceLine(line) == PadLine(MergePairs(NonEmpty(line)))

\* every way to cut q into consecutive groups of one value or of two equal
\* values, each group replaced by its sum
RECURSIVE PairSums(_)
PairSums(q) ==
    IF Len(q) = 0 THEN {<< >>}
    ELSE {<<q[1]>> \o r : r \in PairSums(Tail(q))}
         \cup (IF Len(q) >= 2 /\ q[1] = q[2]
               THEN {<<q[1] + q[2]>> \o r : r \in PairSums(SubSeq(q, 3, Len(q)))}
               ELSE {})

RowOf(i) == i \div Side
ColOf(i) == i % Side

\* cells i and j are orthogonal neighbours
Adjacent(i, j) ==
    \/ RowOf(i) = RowOf(j) /\ (ColOf(i) = ColOf(j) + 1 \/ ColOf(j) = ColOf(i) + 1)
    \/ ColOf(i) = ColOf(j) /\ (RowOf(i) = RowOf(j) + 1 \/ RowOf(j) = RowOf(i) + 1)

\* no empty cell and no two orthogonal neighbours with the same value
Stuck(s) ==
    /\ \A i \in Index : s[i] # 0
    /\ \A i, j \in Index : Adjacent(i, j) => s[i] # s[j]

\* the aggregate call of the step, and the line it worked on before and after
AggregateStep == call'.op = "aggregate"
LineBefore == LineOf(state, call'.head, call'.direction)
LineAfter == LineOf(state', call'.head, call'.direction)

---------------------------------------------------------------------------
(* Properties *)

\* C1: in a state where won or is_dead is true, a move event in any
\* direction returns false and leaves the 36 cells, won and is_dead
\* unchanged; so won and is_dead, once true, stay true and the board never
\* changes again.
C1_TerminalNoOp ==
    [][(won \/ is_dead) =>
          /\ call'.op = "update" /\ call'.ret = FALSE
          /\ state' = state /\ won' = won /\ is_dead' = is_dead]_vars

\* a move event has been handled as a no-op in a lost game
C1_Witness == is_dead /\ call.op = "update" /\ call.ret = FALSE

\* C2: for every direction and line content, aggregate leaves the line equal
\* to the reference result: the non-empty values in order of increasing
\* distance from the pressed edge, two consecutive equal values replaced from
\* the front by their sum (a sum is not compared again), written from the
\* head on, every remaining cell of the line 0.
C2_MergeReference ==
    [][AggregateStep => LineAfter = ReferenceLine(LineBefore)]_vars

\* aggregate has merged a pair, moved a tile and cleared the rest
C2_Witness ==
    /\ call.op = "aggregate"
    /\ LineOf(state, call.head, call.direction) = <<4, 1, 0, 0, 0, 0>>
    /\ \E i \in Index : state[i] = 2

\* C3: merges are pairwise and never chained: [v,v,v,v,0,0] becomes
\* [2v,2v,0,0,0,0] and [v,v,2v,0,0,0] becomes [2v,2v,0,0,0,0]; in general
\* the non-empty output values are the sums of consecutive groups of one or
\* of two equal input tiles.
C3_NoChainMerge ==
    [][AggregateStep =>
          /\ \A v \in LineVals \ {0} :
                /\ LineBefore = <<v, v, v, v, 0, 0>>
                      => LineAfter = <<2 * v, 2 * v, 0, 0, 0, 0>>
                /\ LineBefore = <<v, v, 2 * v, 0, 0, 0>>
                      => LineAfter = <<2 * v, 2 * v, 0, 0, 0, 0>>
          /\ NonEmpty(LineAfter) \in PairSums(NonEmpty(LineBefore))]_vars

\* aggregate has run on a line [v,v,2v,0,0,0] with v = 2
C3_Witness ==
    /\ call.op = "aggregate"
    /\ LineOf(state, call.head, call.direction) = <<4, 4, 0, 0, 0, 0>>
    /\ LineOf(state, call.head, perpendicular_positive(call.direction))[2] = 2
    /\ LineOf(state, call.head, perpendicular_positive(call.direction))[3] = 4

\* C4: a line with no empty cell and no two adjacent equal values is left
\* unchanged by aggregate, in both directions along the line.
C4_FullLineFixed ==
    [][(/\ AggregateStep
        /\ \A k \in 1 .. Side : LineBefore[k] # 0
        /\ \A k \in 1 .. Side - 1 : LineBefore[k] # LineBefore[k + 1])
          => LineAfter = LineBefore]_vars

\* aggregate has run on a full line without equal neighbours
C4_Witness ==
    /\ call.op = "aggregate"
    /\ LineOf(state, call.head, call.direction) = <<1, 2, 1, 2, 1, 4>>

\* the move event of the step, handled while Playing
MoveStep == Playing /\ call'.op = "update"

\* C5: win is checked after the merge pass and before the spawn: a move
\* handled while Playing sets won iff some cell is >= 2048 after the merge
\* pass; when it sets won, the board is exactly the merge result (no spawn)
\* and is_dead stays false.  A Playing board that already holds a cell
\* >= 2048 becomes Won on a move in any direction.
C5_WinAfterMerge ==
    [][MoveStep =>
          /\ won' <=> \E i \in Index : mid'[i] >= WinValue
          /\ won' => state' = mid' /\ ~is_dead'
          /\ (\E i \in Index : state[i] >= WinValue) => won']_vars

\* a move has merged two tiles into 2048 and won the game
C5_Witness ==
    /\ Accepted /\ won /\ call.slid
    /\ \E i \in Index : state[i] = WinValue
    /\ \A i \in Index : state[i] <= WinValue

\* C6: on every move handled while Playing whose merge pass produces no cell
\* >= 2048 and leaves an empty cell, exactly one tile of value 1 is added to
\* the merge result, also when the merge pass changed no cell.
C6_SpawnUnconditional ==
    (/\ Accepted
     /\ \A i \in Index : mid[i] < WinValue
     /\ EmptyCells(mid) # {})
        => OneTileAdded(mid, state)

\* a tile was spawned by a move whose merge pass changed no cell
C6_Witness == Accepted /\ ~call.slid /\ OneTileAdded(mid, state)

\* C7: the spawner turns exactly one cell from 0 to 1 and leaves the other
\* 35 cells alone when the board has an empty cell, changes nothing when it
\* has none, and every empty cell is selected by some byte 0..255.
C7_Spawner ==
    /\ (Accepted /\ ~won) =>
          IF EmptyCells(mid) # {} THEN OneTileAdded(mid, state) ELSE state = mid
    /\ \A b \in Bytes :
          IF EmptyCells(state) # {}
          THEN OneTileAdded(state, add_at_random_position(state, b))
          ELSE add_at_random_position(state, b) = state
    /\ \A i \in EmptyCells(state) :
          \E b \in Bytes :
              add_at_random_position(state, b) = [state EXCEPT ![i] = 1]

\* the spawner has filled the last empty cell of the board
C7_Witness ==
    /\ Accepted /\ ~won
    /\ Cardinality(EmptyCells(mid)) = 1
    /\ EmptyCells(state) = {}

\* C8: dead() is true iff the board has no empty cell and no cell has an
\* orthogonal neighbour with the same value; after a move handled while
\* Playing that does not win, is_dead is set iff that holds of the board
\* after the spawn.
C8_LossCheck ==
    /\ dead(state) <=> Stuck(state)
    /\ dead(mid) <=> Stuck(mid)
    /\ (Accepted /\ ~won) => (is_dead <=> Stuck(state))

\* a move has lost the game
C8_Witness == Accepted /\ is_dead /\ Stuck(state)

\* C9 as stated: every move handled while Playing changes some cell.
C9_AlwaysMutates == [][MoveStep => state' # state]_vars

\* C9 amended: a move handled while Playing leaves the board unchanged
\* exactly when its merge pass changes no cell and leaves no empty cell;
\* every other move handled while Playing changes some cell.  update
\* returns true in both cases.
C9_MutatesUnlessJammed ==
    [][MoveStep =>
          /\ call'.ret
          /\ state' = state <=> (mid' = state /\ EmptyCells(mid') = {})]_vars

\* a move was handled while Playing, returned true and changed no cell
C9_Witness == Accepted /\ ~call.slid /\ state = mid /\ ~is_dead /\ ~won

\* C10: a new game is Playing, with exactly one cell holding 1 and the other
\* 35 holding 0; each of the 36 cells is the initial tile for some byte.
C10_NewGame ==
    /\ call.op = "create" =>
          /\ ~won /\ ~is_dead
          /\ Cardinality({i \in Index : state[i] = 1}) = 1
          /\ Cardinality(EmptyCells(state)) = Cells - 1
    /\ \A i \in Index :
          \E b \in Bytes :
              created(b).state = [j \in Index |-> IF j = i THEN 1 ELSE 0]

\* a new game whose initial tile is on the last cell
C10_Witness == call.op = "create" /\ state[Cells - 1] = 1 /\ ~won /\ ~is_dead

---------------------------------------------------------------------------
(* Vocabulary of the properties on lines and cells *)

\* the board whose only tile is a 1 on cell i
OnlyTile(i) == [j \in Index |-> IF j = i THEN 1 ELSE 0]

\* the cell of the row (Left, Right) or column (Up, Down) of cell i that lies
\* on the edge in direction d
EdgeCell(i, d) ==
    CASE d = "Left" -> Side * RowOf(i)
      [] d = "Right" -> Side * RowOf(i) + (Side - 1)
      [] d = "Up" -> ColOf(i)
      [] d = "Down" -> Side * (Side - 1) + ColOf(i)

\* position q lies on the edge in direction d
OnEdge(q, d) ==
    CASE d = "Up" -> q.row = 0
      [] d = "Down" -> q.row = Side - 1
      [] d = "Left" -> q.column = 0
      [] d = "Right" -> q.column = Side - 1

InBoard(q) == q.row \in 0 .. Side - 1 /\ q.column \in 0 .. Side - 1

\* C11: on a Playing board whose only tile is a 1 on cell p, a move in
\* direction d returns true and yields a board with exactly two tiles, both
\* 1: one on the cell of p's row or column on the edge in direction d, one
\* spawned on a cell that was empty after the merge pass; the game is still
\* Playing.
C11_SingleTileSlide ==
    [][\A p \in Index :
          (MoveStep /\ state = OnlyTile(p)) =>
              LET e == EdgeCell(p, call'.direction)
              IN  /\ call'.ret
                  /\ mid' = OnlyTile(e)
                  /\ \E q \in Index \ {e} : state' = [OnlyTile(e) EXCEPT ![q] = 1]
                  /\ ~won' /\ ~is_dead']_vars

\* a single tile was moved to the right edge of row 0 and a second tile
\* was spawned
C11_Witness ==
    /\ Accepted /\ call.slid /\ call.direction = "Right"
    /\ mid = OnlyTile(Side - 1)
    /\ Cardinality({i \in Index : state[i] = 1}) = 2

\* the head of the n-th row (Left, Right) or column (Up, Down) for a move
\* in direction d
HeadAt(d, n) ==
    CASE d = "Left" -> Pos(n, 0)
      [] d = "Right" -> Pos(n, Side - 1)
      [] d = "Up" -> Pos(0, n)
      [] d = "Down" -> Pos(Side - 1, n)

\* no tile of the line lies behind an empty cell
Compacted(line) ==
    \A k \in 1 .. Len(line) - 1 : line[k] = 0 => line[k + 1] = 0

\* the heads of direction d and the line read from each of them are as C12
\* states
HeadsAndLines(d) ==
    LET hs == collect(heads(d))
        lines == [j \in 1 .. Len(hs) |->
                     collect(LineIteration(hs[j], opposite(d), FALSE))]
    IN  /\ Len(hs) = Side
        /\ \A j, k \in 1 .. Len(hs) : hs[j] = hs[k] => j = k
        /\ \A j \in 1 .. Len(hs) : InBoard(hs[j]) /\ OnEdge(hs[j], d)
        /\ \A j \in 1 .. Len(hs) :
              /\ Len(lines[j]) = Side
              /\ lines[j][1] = hs[j]
              /\ OnEdge(lines[j][Len(lines[j])], opposite(d))
              /\ \A k \in 1 .. Len(lines[j]) :
                    /\ InBoard(lines[j][k])
                    /\ IF d \in {"Left", "Right"}
                       THEN lines[j][k].row = hs[j].row
                       ELSE lines[j][k].column = hs[j].column
        /\ \A r, c \in 0 .. Side - 1 :
              Cardinality({j \in 1 .. Len(hs) :
                              \E k \in 1 .. Len(lines[j]) :
                                  lines[j][k] = Pos(r, c)}) = 1
        /\ \A j \in 1 .. Len(hs) :
              \A k1, k2 \in 1 .. Len(lines[j]) :
                  lines[j][k1] = lines[j][k2] => k1 = k2

\* that, for the four directions
AllHeadsAndLines == \A d \in Direction : HeadsAndLines(d)

\* C12: for each direction, heads yields exactly 6 distinct cells on the
\* edge in the pressed direction; the line read from a head in the opposite
\* direction has exactly 6 cells, head first and far-edge cell last, all in
\* one row (Left, Right) or one column (Up, Down); the 6 lines contain each
\* of the 36 cells exactly once.  So the merge pass of a move leaves each of
\* the six rows or columns packed against the pressed edge.
C12_HeadsAndLines ==
    /\ AllHeadsAndLines
    /\ Accepted =>
          \A n \in 0 .. Side - 1 :
              Compacted(LineOf(mid, HeadAt(call.direction, n), call.direction))

\* a move Up has slid a tile to the head of column 3
C12_Witness ==
    Accepted /\ call.slid /\ call.direction = "Up" /\ mid = OnlyTile(3)

---------------------------------------------------------------------------
(* The game from create() and the two recorded games together *)

InitGame == Init \/ InitReplay

SpecGame == InitGame /\ [][Next]_vars

\* the number of steps from position h to position q of its row or column
Dist(h, q) ==
    (IF q.row >= h.row THEN q.row - h.row ELSE h.row - q.row)
    + (IF q.column >= h.column THEN q.column - h.column ELSE h.column - q.column)

\* C13: the merge pass of a move handled while Playing never panics:
\* whenever a value is staged (count = 1) and a further non-empty cell is
\* scanned, the write cursor is strictly nearer the head than the scanned
\* cell, so the unwrap of the cursor's neighbour succeeds; the cursor and
\* every scanned cell have row and column in 0..5.
C13_NoPanic ==
    /\ [](Playing =>
             \A d \in Direction :
                 \A x \in update_state_visits([state |-> state, panic |-> FALSE],
                                              heads(d), d) :
                     /\ InBoard(x.visit.p) /\ InBoard(x.visit.write)
                     /\ (x.visit.count = 1 /\ x.visit.value # 0)
                           => Dist(x.head, x.visit.write) < Dist(x.head, x.visit.p))
    /\ [][MoveStep => ~panicked']_vars

\* a merge pass has left a full line behind: the write cursor went from the
\* head to the cell on the far edge
C13_Witness ==
    /\ Accepted /\ call.slid /\ ~panicked
    /\ \E n \in 0 .. Side - 1 :
          \A k \in 1 .. Side :
              LineOf(mid, HeadAt(call.direction, n), call.direction)[k] # 0

\* the tile values: 1 doubled at most 11 times
TileValues == {Pow2(e) : e \in 0 .. 11}

\* C14: in every reachable state every cell is 0 or a power of two between
\* 1 and 2048; no cell exceeds 2048, so the addition of the merge stays far
\* below 2^64.
C14_PowersOfTwo ==
    /\ \A i \in Index : state[i] = 0 \/ state[i] \in TileValues
    /\ \A i \in Index : mid[i] = 0 \/ mid[i] \in TileValues
    /\ \A i \in Index : state[i] <= WinValue

\* a board that holds a 2048 tile next to smaller tiles
C14_Witness ==
    /\ \E i \in Index : state[i] = WinValue
    /\ \E i \in Index : state[i] = 16
    /\ \E i \in Index : state[i] = 1

\* C15: in every reachable state the flags follow from the board: won and
\* is_dead are never both true; won is true iff some cell is >= 2048; when
\* won is false, is_dead is true iff the board has no empty cell and no two
\* orthogonal neighbours with the same value.
C15_FlagsFromBoard ==
    /\ ~(won /\ is_dead)
    /\ won <=> \E i \in Index : state[i] >= WinValue
    /\ ~won => (is_dead <=> Stuck(state))

\* a won game, after a further move event was ignored
C15_Witness ==
    /\ won /\ ~is_dead /\ call.op = "update" /\ ~call.ret
    /\ \E i \in Index : state[i] >= WinValue

\* the sum of the cells 0 .. n - 1 of a board, and of the whole board
RECURSIVE SumBelow(_, _)
SumBelow(s, n) == IF n = 0 THEN 0 ELSE s[n - 1] + SumBelow(s, n - 1)

BoardSum(s) == SumBelow(s, Cells)

\* the cells and the sum of the line read from head h by a move in direction d
LineCells(h, d) == {Along(h, d, k) : k \in 0 .. Side - 1}

LineSum(s, h, d) == LET l == LineOf(s, h, d)
                    IN  l[1] + l[2] + l[3] + l[4] + l[5] + l[6]

\* a recorded game played again on x.g, with x.spawns counting the moves
\* that did not win and found an empty cell after merging
RECURSIVE replay_spawns(_, _, _, _)
replay_spawns(x, keys, lo, hi) ==
    IF hi <= lo \/ x.g.won \/ x.g.is_dead THEN x
    ELSE IF hi = lo + 1
    THEN LET r == update_state(x.g, keys[(lo % Len(keys)) + 1], 0)
         IN  [g |-> [state |-> r.state, is_dead |-> r.is_dead, won |-> r.won],
              spawns |-> x.spawns
                  + (IF ~r.won /\ EmptyCells(r.mid) # {} THEN 1 ELSE 0)]
    ELSE LET m == (lo + hi) \div 2
             x1 == replay_spawns(x, keys, lo, m)
         IN  IF x1.g.won \/ x1.g.is_dead THEN x1
             ELSE replay_spawns(x1, keys, m, hi)

\* the recorded games end with as many tiles' worth of mass as spawns placed
\* a tile, the spawn of create() included
ReplaySpawns ==
    LET w == replay_spawns([g |-> created(0), spawns |-> 1],
                           WinRunKeys, 0, WinRunLen)
        d == replay_spawns([g |-> created(0), spawns |-> 1],
                           DeadRunKeys, 0, DeadRunLen)
    IN  /\ w.g = WinRun /\ BoardSum(w.g.state) = w.spawns
        /\ d.g = DeadRun /\ BoardSum(d.g.state) = d.spawns

\* C16: tile mass is conserved by merging and grows only by spawning.  The
\* merge pass on a line keeps the sum of the line's 6 values and leaves the
\* cells of the other lines alone; a move adds exactly 1 to the sum of the
\* board when it does not win and finds an empty cell after merging, and 0
\* otherwise; create() leaves a sum of 1, so the sum counts the spawns that
\* placed a tile.
C16_MassConserved ==
    /\ [](call.op = "create" => BoardSum(state) = 1)
    /\ []ReplaySpawns
    /\ [](Playing =>
             \A d \in Direction, n \in 0 .. Side - 1 :
                 LET h == HeadAt(d, n)
                     r == aggregate(state, h, d).state
                 IN  /\ LineSum(r, h, d) = LineSum(state, h, d)
                     /\ \A i \in Index \ LineCells(h, d) : r[i] = state[i])
    /\ [][MoveStep =>
             /\ BoardSum(mid') = BoardSum(state)
             /\ BoardSum(state') = BoardSum(mid')
                   + (IF ~won' /\ EmptyCells(mid') # {} THEN 1 ELSE 0)]_vars

\* late in a game, a move that slid tiles and was followed by a spawn
C16_Witness ==
    /\ Accepted /\ call.slid /\ ~won
    /\ BoardSum(mid) > 2000
    /\ BoardSum(state) = BoardSum(mid) + 1

\* C17: a Playing game is never stuck: some direction's move changes the
\* board, because a cell is empty after merging (so a tile is spawned) or
\* because two adjacent equal tiles merge; whatever byte the spawn draws,
\* the board after that move differs from the board before.
C17_NeverStuck ==
    Playing =>
        \E d \in Direction :
            LET m == update_state_lines(state, d).state
            IN  /\ EmptyCells(m) # {} \/ m # state
                /\ \A b \in SpawnBytes :
                      update_state([state |-> state, is_dead |-> is_dead,
                                    won |-> won], d, b).state # state

\* a Playing game on a full board, after a move
C17_Witness ==
    Playing /\ Accepted /\ EmptyCells(state) = {}

\* the board with its columns mirrored, its rows mirrored, and transposed
MirrorColumns(s) ==
    LET b == s
    IN  [i \in Index |-> b[Side * RowOf(i) + (LastCoord - ColOf(i))]]

MirrorRows(s) ==
    LET b == s
    IN  [i \in Index |-> b[Side * (LastCoord - RowOf(i)) + ColOf(i)]]

Transpose(s) ==
    LET b == s
    IN  [i \in Index |-> b[Side * ColOf(i) + RowOf(i)]]

\* the mirror that exchanges direction d with its opposite
MirrorAcross(s, d) ==
    IF d \in {"Left", "Right"} THEN MirrorColumns(s) ELSE MirrorRows(s)

\* the merge pass of a move: the board after the aggregate loop
Merged(s, d) == update_state_lines(s, d).state

\* C18: the merge pass is one scan for the four directions up to board
\* symmetry.  For the board B of every reachable state, merging Left on B is
\* the column-mirror of merging Right on the column-mirror of B, merging Up
\* on B is the row-mirror of merging Down on the row-mirror of B, and
\* merging Up on B is the transpose of merging Left on the transpose of B
\* (as merging Down is of merging Right); and the board a move leaves before
\* its spawn is the mirror of the opposite move's on the mirrored board.
C18_MergeSymmetry ==
    /\ [](/\ Merged(state, "Left")
                = MirrorColumns(Merged(MirrorColumns(state), "Right"))
          /\ Merged(state, "Up")
                = MirrorRows(Merged(MirrorRows(state), "Down"))
          /\ Merged(state, "Up")
                = Transpose(Merged(Transpose(state), "Left"))
          /\ Merged(state, "Down")
                = Transpose(Merged(Transpose(state), "Right")))
    /\ [][MoveStep =>
             mid' = MirrorAcross(
                       Merged(MirrorAcross(state, call'.direction),
                              opposite(call'.direction)),
                       call'.direction)]_vars

\* a move Up that merged tiles on a board that is not symmetric
C18_Witness ==
    /\ Accepted /\ call.slid /\ call.direction = "Up"
    /\ mid = Merged(mid, "Up")
    /\ mid # Transpose(mid) /\ mid # MirrorRows(mid) /\ mid # MirrorColumns(mid)
    /\ BoardSum(mid) > 2000

\* the cell one step from q in direction d
StepFrom(q, d) ==
    CASE d = "Up" -> Pos(q.row - 1, q.column)
      [] d = "Down" -> Pos(q.row + 1, q.column)
      [] d = "Left" -> Pos(q.row, q.column - 1)
      [] d = "Right" -> Pos(q.row, q.column + 1)

\* the neighbour lookup at cell q in direction d is as specified
NeighbourAsSpecified(q, d) ==
    LET n == neibouring_cell(q, d)
    IN  /\ n = None <=> OnEdge(q, d)
        /\ n # None =>
              /\ unwrap(n) = StepFrom(q, d)
              /\ InBoard(unwrap(n))
              /\ neibouring_cell(unwrap(n), opposite(d)) = Some(q)

\* the lookup over the 36 cells and the 4 directions
AllNeighbours ==
    \A r \in 0 .. Side - 1, c \in 0 .. Side - 1, d \in Direction :
        NeighbourAsSpecified(Pos(r, c), d)

\* C19: for every cell (row, column in 0..5) and every direction the
\* neighbour lookup returns none exactly when the cell is on the edge in
\* that direction (Up: row 0, Down: row 5, Left: column 0, Right: column
\* 5), and otherwise the in-range cell one step away, from which the step
\* in the opposite direction returns the original cell; in particular at
\* every tile of every reachable board.
C19_Neighbours ==
    /\ AllNeighbours
    /\ \A i \in Index :
          state[i] # 0 =>
              \A d \in Direction : NeighbourAsSpecified(Pos(RowOf(i), ColOf(i)), d)

\* a move Down has slid a tile to the bottom row, where the scan of the
\* column found no further neighbour
C19_Witness ==
    /\ Accepted /\ call.slid /\ call.direction = "Down"
    /\ \E i \in Index :
          /\ mid[i] # 0
          /\ neibouring_cell(Pos(RowOf(i), ColOf(i)), "Down") = None
          /\ neibouring_cell(Pos(RowOf(i), ColOf(i)), "Up") # None

=============================================================================
